---- MODULE Spec2Model ----
(***************************************************************************)
(* Recipe Room server (server.js): the socket.io event handlers over the   *)
(* two maps `rooms` (room code -> room object) and `users` (socket id ->   *)
(* {roomCode, username}).                                                  *)
(*                                                                         *)
(* Room objects live in `heap` and `rooms` holds references to them, so    *)
(* that a room object captured by an in-flight ai-question handler can     *)
(* outlive its entry in `rooms`.  The socket.io adapter's room membership  *)
(* (socket.join / io.to(code).emit) is the variable `joined`.              *)
(*                                                                         *)
(* Message fields id (Date.now()) and timestamp (toLocaleTimeString()) are *)
(* wall-clock readings used only for display; they are replaced by `seq`,  *)
(* the number of the message in creation order.  The room fields           *)
(* startTime/currentStep and the participant field isReady are written     *)
(* once at construction and never read or written again; they are left     *)
(* out.                                                                    *)
(***************************************************************************)
EXTENDS Integers, Sequences, FiniteSets, TLC

\* ----------------------------------------------------------------- bounds
NumSockets == 2        \* connections of the general specification
CapNumSockets == 9     \* connections of the capacity specification
MaxEntries == 2        \* participant entries over all rooms (general)
MaxMsgs == 2           \* messages created in one run (general)
MaxPending == 1        \* AI calls in flight at once
CapMaxMsgs == 1        \* messages created in one run (capacity)
CapMaxClosed == 1      \* disconnects in one run (capacity)
CapTalkers == 2        \* connections that send more than join and disconnect (capacity)

\* ------------------------------------------------------ program constants
MaxParticipants == 8

FallbackText == "Sorry, I'm having trouble right now. Try asking other participants or check back in a moment!"
AiName == "AI Chef"

\* ------------------------------------------------------------ input sets
Sockets == 1..NumSockets
CapSockets == 1..CapNumSockets
AllSockets == Sockets \cup CapSockets
RoomCodes == {"ABC1", "XYZ2"}
CapRoomCodes == {"ABC1"}
\* each connection uses one display name and offers one recipe
NameOf(s) == <<"Alice", "Bob", "Carol">>[((s - 1) % 3) + 1]
RecipeOf(s) == <<"pasta", "soup">>[((s - 1) % 2) + 1]
Texts == {"hi"}
Answers == {"stir gently"}
StepVals == {-1, 2}
Durations == {60}
Photos == {"blob"}
InstIds == 1..(Cardinality(RoomCodes) + MaxPending)

VARIABLES sock, rooms, heap, users, joined, pending, inbox, nmsg, last, emitted, pushed, raised

vars == <<sock, rooms, heap, users, joined, pending, inbox, nmsg, last, emitted, pushed, raised>>

\* ---------------------------------------------------------------- values
NoUser == [roomCode |-> "", username |-> ""]
BlankRoom == [participants |-> <<>>, recipe |-> "", messages |-> <<>>]
NoEmit == [ev |-> "none", to |-> {}, data |-> <<>>]
NoPush == [room |-> 0, msg |-> <<>>]

NewRoomNoRecipe(recipe) == [participants |-> <<>>, recipe |-> "", messages |-> <<>>]

NewRoom(recipe) == [participants |-> <<>>, recipe |-> recipe, messages |-> <<>>]

NewParticipant(s, username) == [id |-> s, username |-> username, currentStep |-> 0]

UserMessage(user, text) ==
  [seq |-> nmsg + 1, username |-> user.username, message |-> text, type |-> "user"]

AiResponse(text) ==
  [seq |-> nmsg + 1, username |-> AiName, message |-> text, type |-> "ai"]

ErrorResponse ==
  [seq |-> nmsg + 1, username |-> AiName, message |-> FallbackText, type |-> "ai"]

\* --------------------------------------------------------------- helpers
Ids(ps) == {ps[i].id : i \in 1..Len(ps)}

Filter(ps, s) == SelectSeq(ps, LAMBDA p : p.id # s)

RemoveAt(q, i) == [k \in 1..(Len(q) - 1) |-> IF k < i THEN q[k] ELSE q[k + 1]]

\* index of the first participant with id s, 0 when there is none
Find(ps, s) ==
  IF s \in Ids(ps)
    THEN CHOOSE i \in 1..Len(ps) : ps[i].id = s /\ \A j \in 1..(i - 1) : ps[j].id # s
    ELSE 0

Referenced(i, rms, pend) ==
  \/ \E rc \in RoomCodes : rms[rc] = i
  \/ \E k \in 1..Len(pend) : pend[k].room = i

\* room objects no longer referenced by `rooms` or by a suspended handler
Collect(h, rms, pend) ==
  [i \in InstIds |-> IF Referenced(i, rms, pend) THEN h[i] ELSE BlankRoom]

FreshInst ==
  CHOOSE i \in InstIds :
    /\ ~Referenced(i, rooms, pending)
    /\ \A j \in InstIds : j < i => Referenced(j, rooms, pending)

\* the event being handled, and the socket whose handler runs
Handling(ev, s) == [ev |-> ev, sock |-> s]

\* io.to(code).emit(ev, data) and socket.emit(ev, data)
EmitTo(ev, to, data) == [ev |-> ev, to |-> to, data |-> data]

Deliver(to, msg) ==
  [t \in AllSockets |-> IF t \in to THEN Append(inbox[t], msg.seq) ELSE inbox[t]]

HasRoom(room) == room # 0

\* rooms.get(code): 0 stands for undefined
RoomsGet(code) == IF code \in RoomCodes THEN rooms[code] ELSE 0

MembersEverywhere(code) == {s \in AllSockets : sock[s] = "open"}

\* io.to(code): the sockets that joined the adapter room `code`
Members(code) == IF code \in RoomCodes THEN joined[code] ELSE {}

RegisteredAlways(s) == TRUE

Registered(s) == users[s] # NoUser

\* ------------------------------------------------------------------ Init
Init ==
  /\ sock = [s \in AllSockets |-> "fresh"]
  /\ rooms = [rc \in RoomCodes |-> 0]
  /\ heap = [i \in InstIds |-> BlankRoom]
  /\ users = [s \in AllSockets |-> NoUser]
  /\ joined = [rc \in RoomCodes |-> {}]
  /\ pending = <<>>
  /\ inbox = [s \in AllSockets |-> <<>>]
  /\ nmsg = 0
  /\ last = [ev |-> "listen", sock |-> 0]
  /\ emitted = NoEmit
  /\ pushed = NoPush
  /\ raised = "none"

\* io.on('connection'): the transport hands out identifiers in order
Connect(s) ==
  /\ sock[s] = "fresh"
  /\ \A t \in AllSockets : t < s => sock[t] # "fresh"
  /\ last' = Handling("connection", s)
  /\ pushed' = NoPush
  /\ sock' = [sock EXCEPT ![s] = "open"]
  /\ emitted' = NoEmit
  /\ raised' = "none"
  /\ UNCHANGED <<rooms, heap, users, joined, pending, inbox, nmsg>>

HasCapacityOffByOne(room) == Len(room.participants) <= MaxParticipants

HasCapacity(room) == Len(room.participants) < MaxParticipants

UserJoinedNoHistory(room) ==
  [participants |-> room.participants, recipe |-> room.recipe, messages |-> <<>>]

UserJoined(room) ==
  [participants |-> room.participants, recipe |-> room.recipe, messages |-> room.messages]

RoomFullToRoom(s, roomCode) ==
  EmitTo("room-full", Members(roomCode) \cup {s}, "Room is full (max 8 participants)")

RoomFull(s, roomCode) == EmitTo("room-full", {s}, "Room is full (max 8 participants)")

JoinRoom(s, roomCode, username, recipe) ==
  /\ sock[s] = "open"
  /\ last' = Handling("join-room", s)
  /\ pushed' = NoPush
  /\ LET created == ~HasRoom(rooms[roomCode])
         inst == IF created THEN FreshInst ELSE rooms[roomCode]
         heap1 == IF created THEN [heap EXCEPT ![inst] = NewRoom(recipe)] ELSE heap
         room == heap1[inst]
     IN /\ rooms' = [rooms EXCEPT ![roomCode] = inst]
        /\ IF HasCapacity(room)
             THEN LET room2 == [room EXCEPT !.participants =
                                   Append(@, NewParticipant(s, username))]
                  IN /\ heap' = [heap1 EXCEPT ![inst] = room2]
                     /\ users' = [users EXCEPT ![s] =
                                    [roomCode |-> roomCode, username |-> username]]
                     /\ joined' = [joined EXCEPT ![roomCode] = @ \cup {s}]
                     /\ emitted' = EmitTo("user-joined", joined'[roomCode], UserJoined(room2))
             ELSE /\ heap' = heap1
                  /\ emitted' = RoomFull(s, roomCode)
                  /\ UNCHANGED <<users, joined>>
  /\ raised' = "none"
  /\ UNCHANGED <<sock, pending, inbox, nmsg>>

PushMessageFront(log, msg) == <<msg>> \o log

PushMessage(log, msg) == Append(log, msg)

ChatMessage(s, text) ==
  /\ sock[s] = "open"
  /\ last' = Handling("chat-message", s)
  /\ IF Registered(s)
       THEN LET user == users[s]
                msg == UserMessage(user, text)
                inst == RoomsGet(user.roomCode)
            IN /\ nmsg' = nmsg + 1
               /\ IF HasRoom(inst)
                    THEN /\ heap' = [heap EXCEPT ![inst].messages = PushMessage(@, msg)]
                         /\ pushed' = [room |-> inst, msg |-> msg]
                         /\ emitted' = EmitTo("new-message", Members(user.roomCode), msg)
                         /\ inbox' = Deliver(Members(user.roomCode), msg)
                         /\ raised' = "none"
                    ELSE /\ raised' = "TypeError"
                         /\ emitted' = NoEmit
                         /\ pushed' = NoPush
                         /\ UNCHANGED <<heap, inbox>>
       ELSE /\ emitted' = NoEmit
            /\ pushed' = NoPush
            /\ raised' = "none"
            /\ UNCHANGED <<heap, inbox, nmsg>>
  /\ UNCHANGED <<sock, rooms, users, joined, pending>>

StepClamped(step) == IF step < 0 THEN 0 ELSE step

\* participant.currentStep = data.step: the client's value as it came
StepValue(step) == step

NextStep(s, step) ==
  /\ sock[s] = "open"
  /\ last' = Handling("next-step", s)
  /\ pushed' = NoPush
  /\ IF Registered(s)
       THEN LET user == users[s]
                inst == RoomsGet(user.roomCode)
            IN IF HasRoom(inst)
                 THEN LET i == Find(heap[inst].participants, s)
                      IN IF i # 0
                           THEN /\ heap' = [heap EXCEPT ![inst].participants[i].currentStep =
                                                            StepValue(step)]
                                /\ emitted' = EmitTo("step-updated", Members(user.roomCode),
                                                 [userId |-> s, username |-> user.username,
                                                  step |-> StepValue(step)])
                                /\ raised' = "none"
                           ELSE /\ emitted' = NoEmit
                                /\ raised' = "none"
                                /\ UNCHANGED heap
                 ELSE /\ raised' = "TypeError"
                      /\ emitted' = NoEmit
                      /\ UNCHANGED heap
       ELSE /\ emitted' = NoEmit
            /\ raised' = "none"
            /\ UNCHANGED heap
  /\ UNCHANGED <<sock, rooms, users, joined, pending, inbox, nmsg>>

StartTimer(s, duration) ==
  /\ sock[s] = "open"
  /\ last' = Handling("start-timer", s)
  /\ pushed' = NoPush
  /\ emitted' = IF Registered(s)
                  THEN EmitTo("timer-started", Members(users[s].roomCode),
                              [duration |-> duration, startedBy |-> users[s].username])
                  ELSE NoEmit
  /\ raised' = "none"
  /\ UNCHANGED <<sock, rooms, heap, users, joined, pending, inbox, nmsg>>

SharePhoto(s, photo, filename) ==
  /\ sock[s] = "open"
  /\ last' = Handling("share-photo", s)
  /\ pushed' = NoPush
  /\ emitted' = IF Registered(s)
                  THEN EmitTo("photo-shared", Members(users[s].roomCode),
                              [username |-> users[s].username, photo |-> photo,
                               filename |-> filename])
                  ELSE NoEmit
  /\ raised' = "none"
  /\ UNCHANGED <<sock, rooms, heap, users, joined, pending, inbox, nmsg>>

\* a handler that waits for the answer before it returns
AiQuestionBlocking(s, question) ==
  /\ sock[s] = "open"
  /\ last' = Handling("ai-question", s)
  /\ IF Registered(s) /\ HasRoom(RoomsGet(users[s].roomCode))
       THEN LET msg == AiResponse("stir gently")
                inst == RoomsGet(users[s].roomCode)
            IN /\ heap' = [heap EXCEPT ![inst].messages = Append(@, msg)]
               /\ pushed' = [room |-> inst, msg |-> msg]
               /\ emitted' = EmitTo("new-message", Members(users[s].roomCode), msg)
               /\ inbox' = Deliver(Members(users[s].roomCode), msg)
               /\ nmsg' = nmsg + 1
       ELSE /\ pushed' = NoPush
            /\ emitted' = NoEmit
            /\ UNCHANGED <<heap, inbox, nmsg>>
  /\ raised' = "none"
  /\ UNCHANGED <<sock, rooms, users, joined, pending>>

\* ai-question up to the await: the handler suspends holding `user` and `room`.
\* With no room behind the registration, room.recipe throws inside the try and
\* the catch block throws again at room.messages.
AiQuestion(s, question) ==
  /\ sock[s] = "open"
  /\ last' = Handling("ai-question", s)
  /\ pushed' = NoPush
  /\ IF Registered(s)
       THEN LET user == users[s]
                inst == RoomsGet(user.roomCode)
            IN IF HasRoom(inst)
                 THEN /\ pending' = Append(pending, [sock |-> s, user |-> user, room |-> inst])
                      /\ raised' = "none"
                      /\ UNCHANGED nmsg
                 ELSE /\ raised' = "TypeError"
                      /\ nmsg' = nmsg + 1
                      /\ UNCHANGED pending
       ELSE /\ raised' = "none"
            /\ UNCHANGED <<pending, nmsg>>
  /\ emitted' = NoEmit
  /\ UNCHANGED <<sock, rooms, heap, users, joined, inbox>>

\* the call resolves with a well-formed response: lines 171-182
AiSuccess(k, text) ==
  /\ k \in 1..Len(pending)
  /\ LET call == pending[k]
         msg == AiResponse(text)
     IN /\ last' = Handling("ai-response", call.sock)
        /\ pending' = RemoveAt(pending, k)
        /\ heap' = Collect([heap EXCEPT ![call.room].messages = PushMessage(@, msg)],
                           rooms, pending')
        /\ pushed' = [room |-> call.room, msg |-> msg]
        /\ emitted' = EmitTo("new-message", Members(call.user.roomCode), msg)
        /\ inbox' = Deliver(Members(call.user.roomCode), msg)
  /\ nmsg' = nmsg + 1
  /\ raised' = "none"
  /\ UNCHANGED <<sock, rooms, users, joined>>

\* the room the catch block appends to: looked up again by code, line 195
CatchRoom(call) == RoomsGet(call.user.roomCode)

\* the call rejects, or its response is malformed: lines 184-198
AiFail(k) ==
  /\ k \in 1..Len(pending)
  /\ LET call == pending[k]
         msg == ErrorResponse
         inst == CatchRoom(call)
     IN /\ last' = Handling("ai-error", call.sock)
        /\ pending' = RemoveAt(pending, k)
        /\ IF HasRoom(inst)
             THEN /\ heap' = Collect([heap EXCEPT ![inst].messages = PushMessage(@, msg)],
                                     rooms, pending')
                  /\ pushed' = [room |-> inst, msg |-> msg]
                  /\ emitted' = EmitTo("new-message", Members(call.user.roomCode), msg)
                  /\ inbox' = Deliver(Members(call.user.roomCode), msg)
                  /\ raised' = "none"
             ELSE /\ heap' = Collect(heap, rooms, pending')
                  /\ pushed' = NoPush
                  /\ emitted' = NoEmit
                  /\ raised' = "TypeError"
                  /\ UNCHANGED inbox
  /\ nmsg' = nmsg + 1
  /\ UNCHANGED <<sock, rooms, users, joined>>

IsEmptyOffByOne(room) == Len(room.participants) <= 1

IsEmpty(room) == Len(room.participants) = 0

\* socket.io leaves every adapter room before it fires 'disconnect'
Disconnect(s) ==
  /\ sock[s] = "open"
  /\ last' = Handling("disconnect", s)
  /\ pushed' = NoPush
  /\ sock' = [sock EXCEPT ![s] = "closed"]
  /\ joined' = [rc \in RoomCodes |-> joined[rc] \ {s}]
  /\ inbox' = [inbox EXCEPT ![s] = <<>>]
  /\ IF Registered(s)
       THEN LET user == users[s]
                inst == RoomsGet(user.roomCode)
            IN /\ IF HasRoom(inst)
                    THEN LET room2 == [heap[inst] EXCEPT !.participants = Filter(@, s)]
                         IN /\ emitted' = EmitTo("user-left", joined'[user.roomCode],
                                                 [username |-> user.username,
                                                  participants |-> room2.participants])
                            /\ rooms' = IF IsEmpty(room2)
                                          THEN [rooms EXCEPT ![user.roomCode] = 0]
                                          ELSE rooms
                            /\ heap' = Collect([heap EXCEPT ![inst] = room2], rooms', pending)
                    ELSE /\ emitted' = NoEmit
                         /\ UNCHANGED <<rooms, heap>>
               /\ users' = [users EXCEPT ![s] = NoUser]
       ELSE /\ emitted' = NoEmit
            /\ UNCHANGED <<rooms, heap, users>>
  /\ raised' = "none"
  /\ UNCHANGED <<pending, nmsg>>

\* ----------------------------------------------------- the environment
RECURSIVE SumLen(_)
SumLen(codes) ==
  IF codes = {} THEN 0
  ELSE LET rc == CHOOSE x \in codes : TRUE
       IN (IF HasRoom(rooms[rc]) THEN Len(heap[rooms[rc]].participants) ELSE 0)
          + SumLen(codes \ {rc})

TotalEntries == SumLen(RoomCodes)

MsgBudget(max) == nmsg + Len(pending) < max

Next ==
  \/ \E s \in Sockets : Connect(s)
  \/ \E s \in Sockets, rc \in RoomCodes :
       TotalEntries < MaxEntries /\ JoinRoom(s, rc, NameOf(s), RecipeOf(s))
  \/ \E s \in Sockets, m \in Texts : MsgBudget(MaxMsgs) /\ ChatMessage(s, m)
  \/ \E s \in Sockets, v \in StepVals : NextStep(s, v)
  \/ \E s \in Sockets, d \in Durations : StartTimer(s, d)
  \/ \E s \in Sockets, p \in Photos : SharePhoto(s, p, "p.jpg")
  \/ \E s \in Sockets, q \in Texts :
       Len(pending) < MaxPending /\ MsgBudget(MaxMsgs) /\ AiQuestion(s, q)
  \/ \E k \in 1..MaxPending, a \in Answers : AiSuccess(k, a)
  \/ \E k \in 1..MaxPending : AiFail(k)
  \/ \E s \in Sockets : Disconnect(s)

Spec == Init /\ [][Next]_vars

\* The capacity specification: one room code and enough connections to fill
\* it; a connection joins before the next one connects.
Idle == {s \in AllSockets : sock[s] = "open" /\ ~Registered(s)}

Closed == {s \in AllSockets : sock[s] = "closed"}

Talkers == 1..CapTalkers

NextCap ==
  \/ \E s \in CapSockets : Idle = {} /\ Connect(s)
  \/ \E s \in CapSockets, rc \in CapRoomCodes :
       ~Registered(s) /\ JoinRoom(s, rc, NameOf(s), RecipeOf(s))
  \/ \E s \in Talkers, m \in Texts : MsgBudget(CapMaxMsgs) /\ ChatMessage(s, m)
  \/ \E s \in Talkers, v \in StepVals : NextStep(s, v)
  \/ \E s \in Talkers, d \in Durations : StartTimer(s, d)
  \/ \E s \in Talkers, p \in Photos : SharePhoto(s, p, "p.jpg")
  \/ \E s \in Talkers, q \in Texts :
       Len(pending) < MaxPending /\ MsgBudget(CapMaxMsgs) /\ AiQuestion(s, q)
  \/ \E k \in 1..MaxPending, a \in Answers : AiSuccess(k, a)
  \/ \E k \in 1..MaxPending : AiFail(k)
  \/ \E s \in CapSockets : Cardinality(Closed) < CapMaxClosed /\ Disconnect(s)

SpecCap == Init /\ [][NextCap]_vars

\* ------------------------------------------------------------ properties
Stored(rc) == heap[rooms[rc]]

Count(rc) == IF HasRoom(rooms[rc]) THEN Len(Stored(rc).participants) ELSE 0

IsJoin(s, rc) == JoinRoom(s, rc, NameOf(s), RecipeOf(s))

\* C1: no room of the store ever has more than 8 participants; a join to a
\* room of n < 8 participants succeeds and leaves n + 1 (so the Nth join by
\* distinct connections to a fresh code leaves N), and a join to a room of 8
\* is rejected and leaves 8.
C1_Capacity ==
  /\ [](\A rc \in RoomCodes : Count(rc) <= 8)
  /\ [][\A s \in AllSockets, rc \in RoomCodes :
          IsJoin(s, rc) =>
            IF Count(rc) < 8
              THEN /\ Count(rc)' = Count(rc) + 1
                   /\ emitted'.ev = "user-joined"
                   /\ users'[s].roomCode = rc
              ELSE /\ Count(rc)' = 8
                   /\ emitted'.ev = "room-full"]_vars

C1_NinthJoinRejected ==
  /\ last.ev = "join-room"
  /\ emitted.ev = "room-full"
  /\ Count("ABC1") = 8
  /\ Cardinality(Ids(Stored("ABC1").participants)) = 8

\* C9: a join-room to a room that has 8 participants sends room-full to the
\* requester alone, and changes neither the room (participants, recipe, log),
\* nor the store, nor the registry, nor the adapter room.
C9_RoomFullRejects ==
  [][\A s \in AllSockets, rc \in RoomCodes :
       (IsJoin(s, rc) /\ Count(rc) = 8) =>
         /\ emitted'.ev = "room-full"
         /\ emitted'.to = {s}
         /\ rooms' = rooms
         /\ Stored(rc)' = Stored(rc)
         /\ users' = users
         /\ joined' = joined]_vars

C9_RejectedNotRegistered ==
  /\ last.ev = "join-room"
  /\ emitted.ev = "room-full"
  /\ emitted.to = {last.sock}
  /\ users[last.sock] = NoUser
  /\ last.sock \notin joined["ABC1"]
  /\ Count("ABC1") = 8
  /\ Len(Stored("ABC1").messages) = 1

\* C2: a room of the store always has at least one participant, and a room
\* leaves the store only in a disconnect that removes its last participants.
C2_RoomIffParticipants ==
  /\ [](\A rc \in RoomCodes : HasRoom(rooms[rc]) => Len(Stored(rc).participants) >= 1)
  /\ [][\A rc \in RoomCodes :
          HasRoom(rooms[rc]) =>
            \/ rooms'[rc] = rooms[rc]
            \/ /\ rooms'[rc] = 0
               /\ last'.ev = "disconnect"
               /\ Filter(Stored(rc).participants, last'.sock) = <<>>]_vars

C2_EmptiedRoomDeleted ==
  /\ last.ev = "disconnect"
  /\ emitted.ev = "user-left"
  /\ emitted.data.participants = <<>>
  /\ ~HasRoom(rooms["ABC1"])
  /\ HasRoom(rooms["XYZ2"])

\* C3: when the only connection left in a room's participant list
\* disconnects, the room leaves the store; and a join-room that creates a room
\* starts it with an empty log and broadcasts an empty history.
C3_LastLeaverDeletesRoom ==
  /\ [][\A s \in AllSockets, rc \in RoomCodes :
          (Disconnect(s) /\ HasRoom(rooms[rc]) /\ Ids(Stored(rc).participants) = {s})
            => rooms'[rc] = 0]_vars
  /\ [][\A s \in AllSockets, rc \in RoomCodes :
          (IsJoin(s, rc) /\ ~HasRoom(rooms[rc]))
            => Stored(rc)'.messages = <<>> /\ emitted'.data.messages = <<>>]_vars

\* C4: the completion of an AI call, by success or by failure, appends one
\* message of type ai to the room object the asker was in when asking; on
\* failure its body is the fallback text.
C4_AiAddsOneMessage ==
  [][\A k \in 1..MaxPending :
       /\ (\E a \in Answers : AiSuccess(k, a)) =>
            pushed'.room = pending[k].room /\ pushed'.msg.type = "ai"
       /\ AiFail(k) =>
            /\ pushed'.room = pending[k].room
            /\ pushed'.msg.type = "ai"
            /\ pushed'.msg.message = FallbackText]_vars

\* C5: no handler raises an error; in particular not the completion of an AI
\* call whose room was deleted meanwhile.
C5_NoHandlerRaises == raised = "none"

Increasing(q) == \A i, j \in 1..Len(q) : i < j => q[i] < q[j]

Seqs(log) == [i \in 1..Len(log) |-> log[i].seq]

\* C6: every log and every connection's received new-messages are in the
\* order the messages were created (for a chat message: the order its event was
\* processed), and a processed chat message is the last of the log of the
\* sender's room and was broadcast to every member of that room.
C6_ChatOrder ==
  /\ \A rc \in RoomCodes : HasRoom(rooms[rc]) => Increasing(Seqs(Stored(rc).messages))
  /\ \A s \in AllSockets : Increasing(inbox[s])
  /\ (last.ev = "chat-message" /\ users[last.sock] # NoUser) =>
       LET rc == users[last.sock].roomCode
           log == Stored(rc).messages
       IN /\ pushed.room = rooms[rc]
          /\ pushed.msg.type = "user"
          /\ pushed.msg.username = users[last.sock].username
          /\ log[Len(log)] = pushed.msg
          /\ emitted = [ev |-> "new-message", to |-> joined[rc], data |-> pushed.msg]
          /\ \A t \in AllSockets : users[t].roomCode = rc => t \in joined[rc]
          /\ \A t \in joined[rc] : inbox[t][Len(inbox[t])] = pushed.msg.seq

C6_TwoChatsInOrder ==
  /\ last.ev = "chat-message"
  /\ \E rc \in RoomCodes :
       /\ HasRoom(rooms[rc])
       /\ Len(Stored(rc).messages) = 2
       /\ \A i \in 1..2 : Stored(rc).messages[i].type = "user"
       /\ Cardinality(joined[rc]) = 2
       /\ \A t \in joined[rc] : inbox[t] = Seqs(Stored(rc).messages)

\* C7: the user-joined broadcast of a successful join-room carries the whole
\* log of the room as it stands, and reaches the new participant.
C7_JoinReplaysHistory ==
  [][\A s \in AllSockets, rc \in RoomCodes :
       (IsJoin(s, rc) /\ emitted'.ev = "user-joined") =>
         /\ emitted'.data.messages = Stored(rc)'.messages
         /\ HasRoom(rooms[rc]) => emitted'.data.messages = Stored(rc).messages
         /\ s \in emitted'.to]_vars

C7_HistoryReplayed ==
  /\ last.ev = "join-room"
  /\ emitted.ev = "user-joined"
  /\ \E i, j \in 1..Len(emitted.data.messages) :
       /\ emitted.data.messages[i].type = "user"
       /\ emitted.data.messages[j].type = "ai"

\* C8: an event other than join-room from a connection with no registry entry
\* emits nothing, raises nothing and changes neither the store nor the registry.
C8_UnregisteredNoOp ==
  [][\A s \in AllSockets :
       (/\ users[s] = NoUser
        /\ \/ \E m \in Texts : ChatMessage(s, m)
           \/ \E v \in StepVals : NextStep(s, v)
           \/ \E d \in Durations : StartTimer(s, d)
           \/ \E q \in Texts : AiQuestion(s, q)
           \/ \E p \in Photos : SharePhoto(s, p, "p.jpg")
           \/ Disconnect(s))
       => /\ emitted' = NoEmit
          /\ raised' = "none"
          /\ rooms' = rooms
          /\ heap' = heap
          /\ users' = users
          /\ pending' = pending]_vars

C8_UnregisteredIgnored ==
  /\ last.ev \in {"chat-message", "next-step", "start-timer", "ai-question", "share-photo"}
  /\ sock[last.sock] = "open"
  /\ users[last.sock] = NoUser
  /\ emitted = NoEmit
  /\ \E rc \in RoomCodes : HasRoom(rooms[rc]) /\ Len(Stored(rc).messages) = 1

\* C10: the disconnect of a registered connection broadcasts user-left with
\* its display name and the remaining participants in join order, deletes the
\* room if that leaves it empty, unregisters the connection, and leaves its
\* identifier in no room's participant list.
C10_DisconnectRemoves ==
  [][\A s \in AllSockets :
       (Disconnect(s) /\ users[s] # NoUser) =>
         LET rc == users[s].roomCode
             rest == Filter(Stored(rc).participants, s)
         IN /\ emitted'.ev = "user-left"
            /\ emitted'.data = [username |-> users[s].username, participants |-> rest]
            /\ rest = <<>> => rooms'[rc] = 0
            /\ users'[s] = NoUser
            /\ \A rc2 \in RoomCodes :
                 HasRoom(rooms'[rc2]) => s \notin Ids(Stored(rc2)'.participants)]_vars

\* C11: next-step with value S from a registered connection P stores exactly
\* S as the step of P's participant entry (the one the handler finds) in P's
\* room and broadcasts step-updated with P's id, P's display name and S; the
\* entries of other connections, the log, the recipe and every other room are
\* unchanged.
C11_StepVerbatim ==
  [][\A s \in AllSockets, v \in StepVals :
       (NextStep(s, v) /\ users[s] # NoUser) =>
         LET rc == users[s].roomCode
             ps == Stored(rc).participants
             i == Find(ps, s)
         IN /\ emitted' = [ev |-> "step-updated", to |-> joined[rc],
                            data |-> [userId |-> s, username |-> users[s].username,
                                      step |-> v]]
            /\ Len(Stored(rc)'.participants) = Len(ps)
            /\ Stored(rc)'.participants[i] = [ps[i] EXCEPT !.currentStep = v]
            /\ \A j \in 1..Len(ps) : j # i => Stored(rc)'.participants[j] = ps[j]
            /\ Stored(rc)'.messages = Stored(rc).messages
            /\ Stored(rc)'.recipe = Stored(rc).recipe
            /\ rooms' = rooms
            /\ \A k \in InstIds : k # rooms[rc] => heap'[k] = heap[k]]_vars

C11_NegativeStepStored ==
  /\ last.ev = "next-step"
  /\ emitted.ev = "step-updated"
  /\ emitted.data.step = -1
  /\ \E rc \in RoomCodes :
       /\ HasRoom(rooms[rc])
       /\ Len(Stored(rc).participants) = 2
       /\ \E i, j \in 1..2 :
            /\ Stored(rc).participants[i] =
                 [id |-> last.sock, username |-> NameOf(last.sock), currentStep |-> -1]
            /\ Stored(rc).participants[j].id # last.sock
            /\ Stored(rc).participants[j].currentStep = 2

\* C12: a room's recipe is the one given by the join-room that created it; it
\* is the same after every step in which the room stays in the store, and it
\* is the recipe of every user-joined broadcast for the room.
C12_RecipeFixed ==
  /\ [][\A rc \in RoomCodes :
          (HasRoom(rooms[rc]) /\ rooms'[rc] = rooms[rc])
            => Stored(rc)'.recipe = Stored(rc).recipe]_vars
  /\ [][\A s \in AllSockets, rc \in RoomCodes :
          IsJoin(s, rc) =>
            /\ ~HasRoom(rooms[rc]) => Stored(rc)'.recipe = RecipeOf(s)
            /\ emitted'.ev = "user-joined" =>
                 /\ emitted'.data.recipe = Stored(rc)'.recipe
                 /\ HasRoom(rooms[rc]) => emitted'.data.recipe = Stored(rc).recipe]_vars

C12_LaterRecipeIgnored ==
  /\ last.ev = "join-room"
  /\ emitted.ev = "user-joined"
  /\ emitted.data.recipe = "pasta"
  /\ RecipeOf(last.sock) = "soup"
  /\ Stored(users[last.sock].roomCode).recipe = "pasta"

IsCompletion(k) == AiFail(k) \/ \E a \in Answers : AiSuccess(k, a)

\* C13: an ai-question of a registered connection returns with the call in
\* flight and the log untouched; a chat message processed while a call is in
\* flight is appended and broadcast at once and the call stays in flight; the
\* response, when it comes, goes behind everything its log holds by then.
C13_ChatOvertakesAi ==
  /\ [][\A s \in AllSockets, q \in Texts :
          (AiQuestion(s, q) /\ users[s] # NoUser) =>
            /\ pending' = Append(pending, [sock |-> s, user |-> users[s],
                                           room |-> rooms[users[s].roomCode]])
            /\ heap' = heap
            /\ emitted' = NoEmit]_vars
  /\ [][\A s \in AllSockets, m \in Texts :
          (ChatMessage(s, m) /\ users[s] # NoUser /\ pending # <<>>) =>
            LET rc == users[s].roomCode
            IN /\ pending' = pending
               /\ pushed'.msg.type = "user"
               /\ Stored(rc)'.messages = Append(Stored(rc).messages, pushed'.msg)
               /\ emitted' = [ev |-> "new-message", to |-> joined[rc],
                               data |-> pushed'.msg]]_vars
  /\ [][\A k \in 1..MaxPending :
          (IsCompletion(k) /\ pushed'.room # 0
             /\ Referenced(pushed'.room, rooms', pending')) =>
            heap'[pushed'.room].messages =
              Append(heap[pushed'.room].messages, pushed'.msg)]_vars

C13_ChatWhileCallInFlight ==
  /\ last.ev = "chat-message"
  /\ Len(pending) = 1
  /\ pending[1].sock # last.sock
  /\ pushed.room = pending[1].room
  /\ emitted.ev = "new-message"
  /\ emitted.data.type = "user"
  /\ pending[1].sock \in emitted.to

\* C14: a start-timer or share-photo from a registered connection emits one
\* timer-started or photo-shared to the sender's room and changes no room, no
\* participant, no log, no recipe, no registry entry and no call in flight.
C14_PureRelays ==
  [][\A s \in AllSockets :
       users[s] # NoUser =>
         LET rc == users[s].roomCode
             same == /\ rooms' = rooms
                     /\ heap' = heap
                     /\ users' = users
                     /\ joined' = joined
                     /\ pending' = pending
                     /\ inbox' = inbox
                     /\ pushed' = NoPush
                     /\ raised' = "none"
         IN /\ \A d \in Durations :
                 StartTimer(s, d) =>
                   /\ emitted' = [ev |-> "timer-started", to |-> joined[rc],
                                   data |-> [duration |-> d,
                                             startedBy |-> users[s].username]]
                   /\ same
            /\ \A p \in Photos :
                 SharePhoto(s, p, "p.jpg") =>
                   /\ emitted' = [ev |-> "photo-shared", to |-> joined[rc],
                                   data |-> [username |-> users[s].username, photo |-> p,
                                             filename |-> "p.jpg"]]
                   /\ same]_vars

C14_PhotoRelayed ==
  /\ last.ev = "share-photo"
  /\ emitted.ev = "photo-shared"
  /\ emitted.data.username = NameOf(last.sock)
  /\ Cardinality(emitted.to) = 2
  /\ \E rc \in RoomCodes : HasRoom(rooms[rc]) /\ Len(Stored(rc).messages) = 2

IsPrefix(p, q) == Len(p) <= Len(q) /\ \A i \in 1..Len(p) : p[i] = q[i]

\* C15: while a room stays in the store its log only grows at the end: the
\* log before a step is a prefix of the log after it, and a step that extends
\* it is a chat-message or the completion of an ai-question and adds one
\* message.
C15_LogAppendOnly ==
  [][\A rc \in RoomCodes :
       (HasRoom(rooms[rc]) /\ rooms'[rc] = rooms[rc]) =>
         LET old == Stored(rc).messages
             new == Stored(rc)'.messages
         IN /\ IsPrefix(old, new)
            /\ new # old =>
                 /\ Len(new) = Len(old) + 1
                 /\ last'.ev \in {"chat-message", "ai-response", "ai-error"}
                 /\ pushed' = [room |-> rooms[rc], msg |-> new[Len(new)]]]_vars

C15_LogGrewTwice ==
  /\ last.ev = "ai-error"
  /\ \E rc \in RoomCodes :
       /\ rooms[rc] = pushed.room
       /\ HasRoom(rooms[rc])
       /\ Len(Stored(rc).messages) = 2
       /\ Stored(rc).messages[1].type = "user"
       /\ Stored(rc).messages[2].message = FallbackText

Entries(rc, s) ==
  IF HasRoom(rooms[rc])
    THEN Cardinality({i \in 1..Len(Stored(rc).participants) :
                        Stored(rc).participants[i].id = s})
    ELSE 0

\* C16: in every state a connection is registered to room R exactly when R's
\* participant list holds exactly one entry with its identifier, and no other
\* room's list holds that identifier.
C16_OneRoomPerConnection ==
  \A s \in AllSockets, rc \in RoomCodes :
    /\ (users[s] # NoUser /\ users[s].roomCode = rc) <=> Entries(rc, s) = 1
    /\ (users[s] # NoUser /\ users[s].roomCode = rc) =>
         \A other \in RoomCodes \ {rc} : Entries(other, s) = 0

RoomEvents ==
  {"user-joined", "new-message", "step-updated", "timer-started", "photo-shared",
   "user-left"}

\* the step is a handler whose broadcast, if it makes one, is for room rc
BroadcastFor(rc) ==
  \/ \E s \in AllSockets : IsJoin(s, rc)
  \/ \E s \in AllSockets :
       /\ users[s] # NoUser
       /\ users[s].roomCode = rc
       /\ \/ \E m \in Texts : ChatMessage(s, m)
          \/ \E v \in StepVals : NextStep(s, v)
          \/ \E d \in Durations : StartTimer(s, d)
          \/ \E p \in Photos : SharePhoto(s, p, "p.jpg")
          \/ Disconnect(s)
  \/ \E k \in 1..Len(pending) : pending[k].user.roomCode = rc /\ IsCompletion(k)

\* C17: every connection that receives a room-scoped broadcast for room R is,
\* once the handler has run, registered to R and in R's participant list.
C17_BroadcastStaysInRoom ==
  [][\A rc \in RoomCodes :
       (BroadcastFor(rc) /\ emitted'.ev \in RoomEvents) =>
         \A t \in emitted'.to :
           /\ users'[t] # NoUser
           /\ users'[t].roomCode = rc
           /\ HasRoom(rooms'[rc])
           /\ t \in Ids(Stored(rc)'.participants)]_vars

\* C18: whichever way the outbound call ends, the completion of an
\* ai-question appends only to the room instance captured when the question
\* was asked; a room of the store that is another instance (one created under
\* the same code meanwhile) keeps its log.
C18_SameRoomBothPaths ==
  [][\A k \in 1..MaxPending :
       IsCompletion(k) =>
         /\ pushed'.room \in {0, pending[k].room}
         /\ \A rc \in RoomCodes :
              (HasRoom(rooms[rc]) /\ rooms[rc] # pending[k].room) =>
                /\ rooms'[rc] = rooms[rc]
                /\ Stored(rc)'.messages = Stored(rc).messages]_vars
====
